---- MODULE Spec2Model ----
(***************************************************************************)
(* Model of hooks/tk-photoshopcc_actions.py (class PhotoshopActions).      *)
(*                                                                         *)
(* Text is modelled as a sequence of one-character strings, so that the    *)
(* regular expression, min(), int() and the % formatting of the hook act   *)
(* on the characters as Python does.  The hook works on one folder         *)
(* (os.path.dirname of the publish path); a file name below is the name    *)
(* of an entry of that folder, and os.path.join(folder, name) is that      *)
(* name.                                                                   *)
(***************************************************************************)
EXTENDS Integers, Sequences, FiniteSets, TLC

\* Bounds of the model.
MaxFiles == 3   \* entries of the folder
MaxBatch == 3   \* actions handed to execute_multiple_actions
MaxReq == 2     \* action names handed to generate_actions

(***************************************************************************)
(* Python text primitives                                                  *)
(***************************************************************************)

DigitChars == <<"0", "1", "2", "3", "4", "5", "6", "7", "8", "9">>

IsDigit(c) == \E i \in 1..Len(DigitChars) : DigitChars[i] = c

DigitVal(c) == (CHOOSE i \in 1..Len(DigitChars) : DigitChars[i] = c) - 1

\* Code points of the characters that occur in the modelled names.
Ord(c) ==
    IF IsDigit(c) THEN 48 + DigitVal(c)
    ELSE CASE c = " " -> 32
           [] c = "%" -> 37
           [] c = "-" -> 45
           [] c = "." -> 46
           [] c = "_" -> 95
           [] c = "a" -> 97
           [] c = "b" -> 98
           [] c = "c" -> 99
           [] c = "d" -> 100
           [] c = "x" -> 120

\* s < t for Python str: first differing code point, else the shorter one.
RECURSIVE StrLess(_, _)
StrLess(s, t) ==
    IF t = <<>> THEN FALSE
    ELSE IF s = <<>> THEN TRUE
    ELSE IF Head(s) # Head(t) THEN Ord(Head(s)) < Ord(Head(t))
    ELSE StrLess(Tail(s), Tail(t))

\* min(list) of str: the first smallest element.
RECURSIVE StrMin(_)
StrMin(l) ==
    IF Len(l) = 1 THEN l[1]
    ELSE LET m == StrMin(Tail(l))
         IN  IF StrLess(m, l[1]) THEN m ELSE l[1]

\* int(s) of a string of decimal digits.
RECURSIVE IntOf(_)
IntOf(s) ==
    IF s = <<>> THEN 0
    ELSE IntOf(SubSeq(s, 1, Len(s) - 1)) * 10 + DigitVal(s[Len(s)])

\* "%d" % n for n >= 0.
RECURSIVE Decimal(_)
Decimal(n) ==
    IF n < 10 THEN <<DigitChars[n + 1]>>
    ELSE Decimal(n \div 10) \o <<DigitChars[(n % 10) + 1]>>

RECURSIVE Repeat(_, _)
Repeat(c, n) == IF n <= 0 THEN <<>> ELSE <<c>> \o Repeat(c, n - 1)

Contains(s, c) == \E i \in 1..Len(s) : s[i] = c

\* Length of the run of digits of s that starts at index i.
RECURSIVE DigitRun(_, _)
DigitRun(s, i) ==
    IF i <= Len(s) /\ IsDigit(s[i]) THEN 1 + DigitRun(s, i + 1) ELSE 0

(***************************************************************************)
(* path % first_frame: one integer argument, so the format must hold       *)
(* exactly one conversion.  The conversions of the modelled publish paths  *)
(* are %d with an optional 0 flag and width; anything else after % is      *)
(* reported as an error (ValueError / TypeError in Python).                *)
(***************************************************************************)
FormatInt(path, n) ==
    LET i == CHOOSE k \in 1..Len(path) :
                 path[k] = "%" /\ \A j \in 1..(k - 1) : path[j] # "%"
        zero == i + 1 <= Len(path) /\ path[i + 1] = "0"
        w0 == IF zero THEN i + 2 ELSE i + 1
        wlen == DigitRun(path, w0)
        width == IntOf(SubSeq(path, w0, w0 + wlen - 1))
        conv == w0 + wlen
        rest == SubSeq(path, conv + 1, Len(path))
        digits == Decimal(n)
        pad == Repeat(IF zero THEN "0" ELSE " ", width - Len(digits))
    IN  IF conv > Len(path) \/ path[conv] # "d" \/ Contains(rest, "%")
        THEN [ok |-> FALSE, text |-> <<>>]
        ELSE [ok |-> TRUE,
              text |-> SubSeq(path, 1, i - 1) \o pad \o digits \o rest]

(***************************************************************************)
(* FRAME_REGEX searched in a file name: any prefix (greedy), one separator *)
(* of . _ -, one or more digits, a dot, and an extension without dots up   *)
(* to the end of the name.                                                 *)
(***************************************************************************)
Separators == {".", "_", "-"}

\* The rest of the name after a prefix of length k matches the separator,
\* digits, dot and extension part of FRAME_REGEX.
RestMatches(name, k) ==
    /\ k + 1 <= Len(name)
    /\ name[k + 1] \in Separators
    /\ LET n == DigitRun(name, k + 2)
           dot == k + 2 + n
       IN  /\ n >= 1
           /\ dot < Len(name)
           /\ name[dot] = "."
           /\ \A j \in (dot + 1)..Len(name) : name[j] # "."

FrameRegexMatches(name) == \E k \in 0..Len(name) : RestMatches(name, k)

\* The groups of the match; (.*) is greedy, so the longest prefix wins.
FrameRegexSearch(name) ==
    LET k == CHOOSE p \in 0..Len(name) :
                 /\ RestMatches(name, p)
                 /\ \A q \in 0..Len(name) : RestMatches(name, q) => q <= p
        n == DigitRun(name, k + 2)
    IN  [prefix |-> SubSeq(name, 1, k),
         frame_sep |-> name[k + 1],
         frame_str |-> SubSeq(name, k + 2, k + 1 + n),
         extension |-> SubSeq(name, k + 3 + n, Len(name))]

(***************************************************************************)
(* __get_frame_sequences(folder, extensions=None, frame_spec=None)         *)
(*                                                                         *)
(* A folder is the sequence of its entries in the order os.listdir yields  *)
(* them; an entry is [name, isdir].  processed_names, a dict, is the       *)
(* sequence of its items in insertion order, each with its key.            *)
(***************************************************************************)
NoFrameSpec == <<>>

\* AddFrame that forgets the frame of a sequence already seen.
AddFrame_dropped(seq_info, frame_str) == seq_info

\* processed_names[file_no_frame]["frame_list"].append(frame_str)
AddFrame(seq_info, frame_str) ==
    [seq_info EXCEPT !.frame_list = Append(@, frame_str)]

\* Position of key in processed_names, 0 when the key is not in the dict.
KeyIndex(processed_names, key) ==
    IF \E i \in 1..Len(processed_names) : processed_names[i].key = key
    THEN CHOOSE i \in 1..Len(processed_names) : processed_names[i].key = key
    ELSE 0

\* A file that starts a sequence: lines 323-341, with the frame_spec in
\* force for it.
NewSequence(st, m, file_no_frame, frame_spec) ==
    [processed_names |->
         Append(st.processed_names,
                [key |-> file_no_frame,
                 sequence_path |->
                     m.prefix \o <<m.frame_sep>> \o frame_spec
                     \o (IF m.extension # <<>> THEN <<".">> \o m.extension
                         ELSE <<>>),
                 frame_list |-> <<m.frame_str>>]),
     frame_spec |-> frame_spec]

\* A file the regex matched, with the match m, its key file_no_frame and the
\* position idx of that key in processed_names.
ProcessMatch(st, m, file_no_frame, idx, extensions) ==
    IF idx # 0
    THEN [st EXCEPT !.processed_names[idx] = AddFrame(@, m.frame_str)]
    ELSE IF extensions # {} /\ m.extension \notin extensions THEN st
    ELSE NewSequence(st, m, file_no_frame,
                     IF st.frame_spec = NoFrameSpec
                     THEN <<"%", "0">> \o Decimal(Len(m.frame_str)) \o <<"d">>
                     ELSE st.frame_spec)

FileNoFrame(m) == m.prefix \o <<".">> \o m.extension

KeyedMatch(st, m, file_no_frame, extensions) ==
    ProcessMatch(st, m, file_no_frame,
                 KeyIndex(st.processed_names, file_no_frame), extensions)

\* One iteration of the loop over os.listdir(folder); st holds the two
\* locals that live across iterations, processed_names and frame_spec.
ProcessFile(st, entry, extensions) ==
    IF entry.isdir THEN st
    ELSE IF ~FrameRegexMatches(entry.name) THEN st
    ELSE KeyedMatch(st, FrameRegexSearch(entry.name),
                    FileNoFrame(FrameRegexSearch(entry.name)), extensions)

RECURSIVE ScanFolder(_, _, _, _)
ScanFolder(st, folder, i, extensions) ==
    IF i > Len(folder) THEN st
    ELSE ScanFolder(ProcessFile(st, folder[i], extensions), folder, i + 1,
                    extensions)

\* The list of (sequence path, frame list) tuples built from the dict.
SequenceList(processed_names) ==
    [i \in 1..Len(processed_names) |->
        <<processed_names[i].sequence_path, processed_names[i].frame_list>>]

get_frame_sequences(folder, extensions, frame_spec) ==
    SequenceList(
        ScanFolder([processed_names |-> <<>>, frame_spec |-> frame_spec],
                   folder, 1, extensions).processed_names)

(***************************************************************************)
(* The host (engine.adobe) as the hook sees it: the documents loaded, the  *)
(* files placed as layers and the warning dialogs shown.  Reading          *)
(* app.activeDocument raises RuntimeError when no document is open.        *)
(* A call of the hook to the outside is recorded as [call, arg].           *)
(***************************************************************************)
ADD_AS_A_LAYER == "add_as_a_layer"
OPEN_FILE == "open_file"

NoError == "none"

Call(c, arg) == [call |-> c, arg |-> arg]

HostCalls ==
    {"File", "load", "activeDocument", "warning", "ActionDescriptor",
     "executeAction"}

HasActiveDocument(host) == host.documents # <<>>

\* _open_file(path, sg_publish_data)
_open_file(path, host) ==
    [raised |-> NoError,
     host |-> [host EXCEPT !.documents = Append(@, path)],
     calls |-> <<Call("File", path), Call("load", path)>>]

\* _place_file without the activeDocument guard.
_place_file_unguarded(path, host) ==
    [raised |-> NoError,
     host |-> [host EXCEPT !.layers = Append(@, path)],
     calls |-> <<Call("activeDocument", <<>>),
                 Call("ActionDescriptor", <<>>), Call("File", path),
                 Call("executeAction", path)>>]

\* _place_file(path, sg_publish_data)
_place_file(path, host) ==
    IF ~HasActiveDocument(host)
    THEN [raised |-> NoError,
          host |-> [host EXCEPT !.warnings = @ + 1],
          calls |-> <<Call("activeDocument", <<>>), Call("warning", <<>>)>>]
    ELSE [raised |-> NoError,
          host |-> [host EXCEPT !.layers = Append(@, path)],
          calls |-> <<Call("activeDocument", <<>>),
                      Call("ActionDescriptor", <<>>), Call("File", path),
                      Call("executeAction", path)>>]

\* os.path.exists(path) that answers True for every path.
exists_always(path, folder) == TRUE

\* os.path.exists(path)
exists(path, folder) == \E i \in 1..Len(folder) : folder[i].name = path

\* The two ifs on name with any other name falling through to _open_file.
Dispatch_fallthrough(name, path, host) ==
    IF name = ADD_AS_A_LAYER THEN _place_file(path, host)
    ELSE _open_file(path, host)

\* if name == _OPEN_FILE: ...  if name == _ADD_AS_A_LAYER: ...
Dispatch(name, path, host) ==
    IF name = OPEN_FILE THEN _open_file(path, host)
    ELSE IF name = ADD_AS_A_LAYER THEN _place_file(path, host)
    ELSE [raised |-> NoError, host |-> host, calls |-> <<>>]

\* get_publish_path(sg_publish_data): the path field of the publish.
get_publish_path(sg_publish_data) == sg_publish_data.path

(***************************************************************************)
(* execute_action(name, params, sg_publish_data).  The result holds the    *)
(* exception that leaves the method (NoError when it returns), the host    *)
(* afterwards, the calls made in order, the sequences found when the       *)
(* folder was scanned and the path after the frame substitution.           *)
(***************************************************************************)
NotScanned == <<"not scanned">>

Outcome(raised, host, calls, frame_sequences, path) ==
    [raised |-> raised, host |-> host, calls |-> calls,
     frame_sequences |-> frame_sequences, path |-> path]

\* What follows the dispatch, d being what the handler did.
Dispatched(d, path, calls, frame_sequences) ==
    Outcome(d.raised, d.host, calls \o <<Call("exists", path)>> \o d.calls,
            frame_sequences, path)

\* From "if not os.path.exists(path)" on.
CheckAndDispatch(name, path, folder, host, calls, frame_sequences) ==
    IF ~exists(path, folder)
    THEN Outcome("Exception", host, calls \o <<Call("exists", path)>>,
                 frame_sequences, path)
    ELSE Dispatched(Dispatch(name, path, host), path, calls, frame_sequences)

\* path = path % first_frame, and the rest of the method.
Substitute(name, path, formatted, folder, host, calls, frame_sequences) ==
    IF ~formatted.ok
    THEN Outcome("ValueError", host, calls, frame_sequences, path)
    ELSE CheckAndDispatch(name, formatted.text, folder, host, calls,
                          frame_sequences)

\* The body of 'if "%" in path', with the sequences the scan returned.
FirstFrame(name, path, folder, host, calls, frame_sequences) ==
    IF Len(frame_sequences) = 0
    THEN Outcome("IndexError", host, calls, frame_sequences, path)
    ELSE Substitute(name, path,
                    FormatInt(path, IntOf(StrMin(frame_sequences[1][2]))),
                    folder, host, calls, frame_sequences)

WithPath(name, path, folder, host, calls) ==
    IF Contains(path, "%")
    THEN FirstFrame(name, path, folder, host,
                    calls \o <<Call("listdir", <<>>)>>,
                    get_frame_sequences(folder, {}, NoFrameSpec))
    ELSE CheckAndDispatch(name, path, folder, host, calls, NotScanned)

execute_action(name, params, sg_publish_data, folder, host) ==
    WithPath(name, get_publish_path(sg_publish_data), folder, host,
             <<Call("get_publish_path", get_publish_path(sg_publish_data))>>)

(***************************************************************************)
(* generate_actions(sg_publish_data, actions, ui_area)                     *)
(***************************************************************************)
InList(x, l) == \E i \in 1..Len(l) : l[i] = x

AddAsALayerInstance ==
    [name |-> ADD_AS_A_LAYER, params |-> "None",
     caption |-> "Add as a Layer",
     description |->
         "Adds a layer referencing the image to the current document."]

OpenFileInstance ==
    [name |-> OPEN_FILE, params |-> "None", caption |-> "Open File",
     description |-> "This will open the file."]

\* One instance for every requested name in turn, repeated names included.
RECURSIVE generate_actions_per_request(_, _, _)
generate_actions_per_request(sg_publish_data, actions, ui_area) ==
    IF actions = <<>> THEN <<>>
    ELSE (IF Head(actions) = ADD_AS_A_LAYER THEN <<AddAsALayerInstance>>
          ELSE IF Head(actions) = OPEN_FILE THEN <<OpenFileInstance>>
          ELSE <<>>)
         \o generate_actions_per_request(sg_publish_data, Tail(actions),
                                         ui_area)

generate_actions(sg_publish_data, actions, ui_area) ==
    (IF InList(ADD_AS_A_LAYER, actions) THEN <<AddAsALayerInstance>>
     ELSE <<>>)
    \o (IF InList(OPEN_FILE, actions) THEN <<OpenFileInstance>> ELSE <<>>)

(***************************************************************************)
(* execute_multiple_actions(actions): whether an exception raised by       *)
(* execute_action leaves the for loop (there is no try around the call).   *)
(***************************************************************************)
\* A loop that goes on to the next action after an error.
LeavesLoop_swallowed(raised) == FALSE

LeavesLoop(raised) == raised # NoError

(***************************************************************************)
(* Inputs                                                                  *)
(***************************************************************************)
File(name) == [name |-> name, isdir |-> FALSE]
Directory(name) == [name |-> name, isdir |-> TRUE]

\* What the folder of the publish may hold.
Entries ==
    {File(<<"a", ".", "9", ".", "x">>),
     File(<<"a", ".", "1", "0", ".", "x">>),
     File(<<"a", "_", "7", ".", "x">>),
     File(<<"b", ".", "0", "5", ".", "x">>),
     File(<<"a", ".", "x">>),
     Directory(<<"c", ".", "1", ".", "x">>)}

\* The listings of at most n distinct entries of S, in every order.
RECURSIVE Listings(_, _)
Listings(S, n) ==
    IF n = 0 THEN {<<>>}
    ELSE {<<>>} \cup
         UNION {{<<e>> \o l : l \in Listings(S \ {e}, n - 1)} : e \in S}

PublishPaths ==
    {<<"a", ".", "%", "d", ".", "x">>,
     <<"b", ".", "%", "0", "2", "d", ".", "x">>,
     <<"a", ".", "9", ".", "x">>}

Publishes == {[path |-> p] : p \in PublishPaths}

ActionNames == {ADD_AS_A_LAYER, OPEN_FILE, "other_action"}

UiAreas == {"main", "details", "history"}

SeqsUpTo(S, n) == UNION {[1..k -> S] : k \in 0..n}

ActionDicts ==
    {[name |-> n, sg_publish_data |-> d, params |-> "None"] :
        n \in ActionNames, d \in Publishes}

EmptyHost == [documents |-> <<>>, layers |-> <<>>, warnings |-> 0]

OneDocumentHost == [EmptyHost EXCEPT !.documents = <<<<"c", ".", "x">>>>]

(***************************************************************************)
(* State                                                                   *)
(***************************************************************************)
VARIABLES
    folder,     \* the entries of the publish folder, in os.listdir order
    host,       \* the host's documents, layers and dialogs
    pc,         \* "idle", "loop" (inside execute_multiple_actions), "done"
    call,       \* the hook method called and its arguments
    index,      \* execute_multiple_actions: position of the next action
    log,        \* one record per execute_action call made, in order
    raised,     \* the exception that reached the caller, NoError if none
    result      \* the value generate_actions returned

vars == <<folder, host, pc, call, index, log, raised, result>>

NoCall == [op |-> "none"]
NoResult == <<"no result">>

Init ==
    /\ folder \in Listings(Entries, MaxFiles)
    /\ host \in {EmptyHost, OneDocumentHost}
    /\ pc = "idle"
    /\ call = NoCall
    /\ index = 0
    /\ log = <<>>
    /\ raised = NoError
    /\ result = NoResult

\* The record kept of one execute_action call.
LogEntry(name, sg_publish_data, before, out) ==
    [name |-> name, sg_publish_data |-> sg_publish_data, before |-> before,
     raised |-> out.raised, after |-> out.host, calls |-> out.calls,
     frame_sequences |-> out.frame_sequences, path |-> out.path]

\* execute_action called directly has ended with out.
Returned(name, sg_publish_data, out) ==
    /\ host' = out.host
    /\ log' = <<LogEntry(name, sg_publish_data, host, out)>>
    /\ raised' = out.raised

\* execute_action called by the loop has ended with out.
Iterated(name, sg_publish_data, out) ==
    /\ host' = out.host
    /\ log' = Append(log, LogEntry(name, sg_publish_data, host, out))
    /\ IF LeavesLoop(out.raised)
       THEN /\ raised' = out.raised
            /\ pc' = "done"
            /\ index' = index
       ELSE /\ raised' = raised
            /\ pc' = "loop"
            /\ index' = index + 1

GenerateActions ==
    /\ pc = "idle"
    /\ \E d \in Publishes : \E actions \in SeqsUpTo(ActionNames, MaxReq) :
       \E ui_area \in UiAreas :
          /\ call' = [op |-> "generate_actions", sg_publish_data |-> d,
                      actions |-> actions, ui_area |-> ui_area]
          /\ result' = generate_actions(d, actions, ui_area)
    /\ pc' = "done"
    /\ UNCHANGED <<folder, host, index, log, raised>>

ExecuteAction ==
    /\ pc = "idle"
    /\ \E name \in ActionNames : \E d \in Publishes :
          /\ call' = [op |-> "execute_action", name |-> name,
                      params |-> "None", sg_publish_data |-> d]
          /\ Returned(name, d, execute_action(name, "None", d, folder, host))
    /\ pc' = "done"
    /\ UNCHANGED <<folder, index, result>>

\* execute_multiple_actions is entered with its list of actions.
ExecuteMultipleActions ==
    /\ pc = "idle"
    /\ \E actions \in SeqsUpTo(ActionDicts, MaxBatch) :
          call' = [op |-> "execute_multiple_actions", actions |-> actions]
    /\ index' = 1
    /\ pc' = "loop"
    /\ UNCHANGED <<folder, host, log, raised, result>>

\* One iteration of "for single_action in actions".
LoopBody ==
    /\ pc = "loop"
    /\ index <= Len(call.actions)
    /\ Iterated(call.actions[index].name,
                call.actions[index].sg_publish_data,
                execute_action(call.actions[index].name,
                               call.actions[index].params,
                               call.actions[index].sg_publish_data,
                               folder, host))
    /\ UNCHANGED <<folder, call, result>>

\* The list is exhausted: execute_multiple_actions returns.
LoopExit ==
    /\ pc = "loop"
    /\ index > Len(call.actions)
    /\ pc' = "done"
    /\ UNCHANGED <<folder, host, call, index, log, raised, result>>

\* The hook's single calls, over every folder content.
Next ==
    \/ GenerateActions
    \/ ExecuteAction

Spec == Init /\ [][Next]_vars

\* Batches of actions.  What a batch does with a folder is what its
\* execute_action calls do with it, which Spec covers for every folder; the
\* batches run on the listings of two frames of one sequence.
BatchEntries ==
    {File(<<"a", ".", "9", ".", "x">>),
     File(<<"a", ".", "1", "0", ".", "x">>)}

BatchInit ==
    /\ Init
    /\ folder \in Listings(BatchEntries, MaxFiles)

BatchNext ==
    \/ ExecuteMultipleActions
    \/ LoopBody
    \/ LoopExit

BatchSpec == BatchInit /\ [][BatchNext]_vars

(***************************************************************************)
(* Properties                                                              *)
(***************************************************************************)

\* The calls of a log entry that go to the host.
HostCallsOf(e) == {i \in 1..Len(e.calls) : e.calls[i].call \in HostCalls}

Made(e, c) == \E i \in 1..Len(e.calls) : e.calls[i].call = c

\* The path is the name of an entry of the folder.
OnDisk(path) == \E i \in 1..Len(folder) : folder[i].name = path

IsBatch == call.op = "execute_multiple_actions"

\* C1: in execute_multiple_actions, when execute_action raises for the K-th
\* action, no call is made for any later action (the log of execute_action
\* calls ends at K), the error reaches the caller, and the host is as the
\* actions 1..K-1 left it (each call starts from the host the one before
\* left, and the host at the end is the one the K-th call started from).
C1_BatchStopsAtFirstError ==
    IsBatch =>
        /\ Len(log) <= Len(call.actions)
        /\ \A k \in 1..Len(log) :
              /\ log[k].name = call.actions[k].name
              /\ k > 1 => log[k].before = log[k - 1].after
              /\ log[k].raised # NoError =>
                    /\ Len(log) = k
                    /\ pc = "done"
                    /\ raised = log[k].raised
                    /\ host = log[k].before

\* C1 witness: a batch of three whose first action loaded a document and
\* whose second raised; the third, which would have run, was not called.
C1_Witness ==
    /\ IsBatch
    /\ pc = "done"
    /\ Len(call.actions) = 3
    /\ Len(log) = 2
    /\ Made(log[1], "load")
    /\ log[2].raised = "Exception"
    /\ call.actions[3].name = OPEN_FILE
    /\ OnDisk(call.actions[3].sg_publish_data.path)
    /\ Len(host.documents) = 1

\* C2: whatever the action name, when the resolved path is not on disk
\* execute_action raises and makes no host call; the host is unchanged.
C2_MissingFileNoHostCall ==
    \A k \in 1..Len(log) :
        ~OnDisk(log[k].path) =>
            /\ log[k].raised # NoError
            /\ HostCallsOf(log[k]) = {}
            /\ log[k].after = log[k].before

\* C2 witness: add_as_a_layer on a sequence path whose substituted frame
\* file is missing, with a document open: the error, and no host call.
C2_Witness ==
    /\ call.op = "execute_action"
    /\ Len(log) = 1
    /\ log[1].name = ADD_AS_A_LAYER
    /\ log[1].frame_sequences # NotScanned
    /\ Made(log[1], "exists")
    /\ ~OnDisk(log[1].path)
    /\ log[1].before = OneDocumentHost
    /\ log[1].raised = "Exception"

\* The k-th call of the batch placed an existing file with no document open.
PlacedWithoutDocument(k) ==
    /\ log[k].name = ADD_AS_A_LAYER
    /\ OnDisk(log[k].path)
    /\ Made(log[k], "exists")
    /\ log[k].before.documents = <<>>

\* C3: add_as_a_layer on an existing file with no active document shows the
\* warning and returns without raising; no action descriptor is built, no
\* place command is executed, documents and layers are unchanged; and the
\* batch goes on: it ends only after its last action was called.
C3_PlaceWithoutDocumentWarns ==
    IsBatch =>
        \A k \in 1..Len(log) :
            PlacedWithoutDocument(k) =>
                /\ log[k].raised = NoError
                /\ Made(log[k], "warning")
                /\ ~Made(log[k], "ActionDescriptor")
                /\ ~Made(log[k], "executeAction")
                /\ log[k].after.documents = log[k].before.documents
                /\ log[k].after.layers = log[k].before.layers
                /\ log[k].after.warnings = log[k].before.warnings + 1
                /\ k = Len(log) =>
                      /\ raised = NoError
                      /\ pc = "loop" => index = k + 1
                      /\ pc = "done" => k = Len(call.actions)

\* C3 witness: the first action of a batch warned, and the second action,
\* an open_file, was executed after it.
C3_Witness ==
    /\ IsBatch
    /\ Len(log) = 2
    /\ PlacedWithoutDocument(1)
    /\ Made(log[1], "warning")
    /\ log[2].name = OPEN_FILE
    /\ Made(log[2], "load")
    /\ host.layers = <<>>

\* The files of the folder that FRAME_REGEX matches, by position.
Matched ==
    {i \in 1..Len(folder) :
        ~folder[i].isdir /\ FrameRegexMatches(folder[i].name)}

Parts(i) == FrameRegexSearch(folder[i].name)

SameSequence(i, j) ==
    /\ Parts(i).prefix = Parts(j).prefix
    /\ Parts(i).extension = Parts(j).extension

\* The publish path of the k-th call holds a frame placeholder.
HasPlaceholder(k) == Contains(log[k].sg_publish_data.path, "%")

\* The files that the publish path p names: p with the file's own frame
\* number substituted is the file's name.
FramesOf(p) ==
    {i \in Matched :
        LET f == FormatInt(p, IntOf(Parts(i).frame_str))
        IN  f.ok /\ f.text = folder[i].name}

IntMin(S) == CHOOSE n \in S : \A m \in S : n <= m

\* C4: open_file on a path with a frame placeholder, in a folder that holds
\* files of that sequence, opens the file of the sequence's lowest frame
\* number, whatever else the folder holds.
C4_OpensLowestFrameOfThatSequence ==
    \A k \in 1..Len(log) :
        LET p == log[k].sg_publish_data.path
        IN  (log[k].name = OPEN_FILE /\ HasPlaceholder(k) /\ FramesOf(p) # {})
            => LET first ==
                       FormatInt(p, IntMin({IntOf(Parts(i).frame_str) :
                                               i \in FramesOf(p)})).text
               IN  /\ log[k].raised = NoError
                   /\ log[k].path = first
                   /\ \E c \in 1..Len(log[k].calls) :
                         log[k].calls[c] = Call("load", first)

\* The descriptors of name n in the value generate_actions returned.
Instances(n) == {i \in 1..Len(result) : result[i].name = n}

UnknownName(k) == log[k].name \notin {OPEN_FILE, ADD_AS_A_LAYER}

\* C6 as stated: an action name that is neither open_file nor
\* add_as_a_layer makes no host call and raises no error, for every publish.
C6_UnknownNameNeverRaises ==
    \A k \in 1..Len(log) :
        UnknownName(k) =>
            /\ HostCallsOf(log[k]) = {}
            /\ log[k].raised = NoError

\* C6 amended: an action name that is neither open_file nor add_as_a_layer
\* dispatches no handler and makes no host call, for every publish, and the
\* host is unchanged; it returns without error exactly when the call
\* reaches the existence check and the resolved path is on disk, and raises
\* otherwise, as for any other name.
C6_UnknownNameNoDispatch ==
    \A k \in 1..Len(log) :
        UnknownName(k) =>
            /\ HostCallsOf(log[k]) = {}
            /\ log[k].after = log[k].before
            /\ log[k].raised = NoError
                  <=> (Made(log[k], "exists") /\ OnDisk(log[k].path))
            /\ (Made(log[k], "exists") /\ ~OnDisk(log[k].path))
                  => log[k].raised = "Exception"

\* C6 witness: an unknown name on an existing file returned silently.
C6_Witness ==
    /\ call.op = "execute_action"
    /\ Len(log) = 1
    /\ UnknownName(1)
    /\ OnDisk(log[1].path)
    /\ log[1].raised = NoError
    /\ log[1].calls # <<>>

\* The k-th call scanned the folder.
Scanned(k) == log[k].frame_sequences # NotScanned

Keys == {<<Parts(i).prefix, Parts(i).extension>> : i \in Matched}

FilesOf(key) ==
    {i \in Matched : <<Parts(i).prefix, Parts(i).extension>> = key}

StartsWith(s, t) == Len(s) >= Len(t) /\ SubSeq(s, 1, Len(t)) = t

EndsWith(s, t) ==
    Len(s) >= Len(t) /\ SubSeq(s, Len(s) - Len(t) + 1, Len(s)) = t

\* Group g is the group of key: its path has the key's prefix and extension
\* and its frame list holds the frame string of each file of the key, once
\* per file.
GroupIsOf(g, key) ==
    /\ StartsWith(g[1], key[1])
    /\ EndsWith(g[1], <<".">> \o key[2])
    /\ Len(g[2]) = Cardinality(FilesOf(key))
    /\ \A i \in FilesOf(key) :
          Cardinality({j \in 1..Len(g[2]) : g[2][j] = Parts(i).frame_str})
              = Cardinality({j \in FilesOf(key) :
                                Parts(j).frame_str = Parts(i).frame_str})

C8_FirstFrameIsIntegerMinimum ==
    \A k \in 1..Len(log) :
        (Scanned(k) /\ Len(log[k].frame_sequences) > 0
         /\ Made(log[k], "exists"))
        => LET frames == log[k].frame_sequences[1][2]
           IN  log[k].path =
                   FormatInt(log[k].sg_publish_data.path,
                             IntMin({IntOf(frames[j]) :
                                        j \in 1..Len(frames)})).text

\* Group g holds file i: its path is the file's prefix, separator and a
\* frame specification, and the file's frame string is in its list.
Holds(g, i) ==
    /\ StartsWith(g[1], Parts(i).prefix \o <<Parts(i).frame_sep, "%">>)
    /\ InList(Parts(i).frame_str, g[2])

\* C9: two files that differ by the separator between prefix and frame
\* number are in two distinct groups, and neither frame number is in the
\* other's frame list.
C9_SeparatorsAreDifferentSequences ==
    \A k \in 1..Len(log) :
        Scanned(k) =>
            \A i, j \in Matched :
                (SameSequence(i, j)
                 /\ Parts(i).frame_sep # Parts(j).frame_sep)
                => LET gs == log[k].frame_sequences
                   IN  \E a, b \in 1..Len(gs) :
                          /\ a # b
                          /\ Holds(gs[a], i)
                          /\ Holds(gs[b], j)
                          /\ ~InList(Parts(j).frame_str, gs[a][2])
                          /\ ~InList(Parts(i).frame_str, gs[b][2])

\* File i is the first file of its group in listing order.
FirstOfGroup(i) == \A j \in Matched : SameSequence(i, j) => i <= j

\* C10: with no frame_spec given, the templated path of every group has the
\* padding width of the frame string of the group's own first file.
C10_PaddingOfOwnFirstFile ==
    \A k \in 1..Len(log) :
        Scanned(k) =>
            \A i \in Matched :
                FirstOfGroup(i) =>
                    \E g \in 1..Len(log[k].frame_sequences) :
                        log[k].frame_sequences[g][1] =
                            Parts(i).prefix
                            \o <<Parts(i).frame_sep, "%", "0">>
                            \o Decimal(Len(Parts(i).frame_str))
                            \o <<"d", ".">> \o Parts(i).extension

====
